---------------------------- MODULE Spec2Model ----------------------------
(***************************************************************************)
(* Model of transmitter.py: send_file, receive_file and main, run as two   *)
(* processes joined by one TCP byte stream.                                *)
(*                                                                         *)
(* Bytes are their integer values.  A recv(n) on the stream returns any    *)
(* number of bytes between 1 and min(n, bytes in flight), or the empty     *)
(* byte string once the peer has closed and nothing is in flight.  Every   *)
(* system call of both functions may also fail (raise).                    *)
(*                                                                         *)
(* The receiver's peer is either send_file or a raw client that writes an  *)
(* arbitrary byte stream and closes (the role the mocked connection plays  *)
(* in tests/test_transmitter.py).                                          *)
(*                                                                         *)
(* Another process may append to the source file between os.path.getsize   *)
(* and the end of the read loop.                                           *)
(***************************************************************************)
EXTENDS Integers, Sequences, FiniteSets, TLC

(***************************************************************************)
(* Sizes.  CHUNK_SIZE is 4096 in the source and the header read asks for   *)
(* 1024 bytes; the model scales both down so that files of a few bytes     *)
(* span no chunk, exactly one chunk, and several chunks plus a remainder.  *)
(***************************************************************************)
CHUNK_SIZE == 2

HeaderRecvSize == 4

MaxSmallLen == 2

LongLen == 11

\* appends another process makes to the source file during a send
MaxGrow == 1

(***************************************************************************)
(* Byte values and byte strings                                            *)
(***************************************************************************)
Min(a, b) == IF a <= b THEN a ELSE b

Take(s, k) == SubSeq(s, 1, Min(k, Len(s)))

Drop(s, k) == SubSeq(s, Min(k, Len(s)) + 1, Len(s))

IsPrefix(p, s) == Len(p) <= Len(s) /\ SubSeq(s, 1, Len(p)) = p

\* "\n".encode()
Newline == <<10>>

IsDigit(b) == b \in 48..57

\* the ASCII characters str.strip() and int() treat as whitespace
IsSpace(b) == b \in {9, 10, 11, 12, 13, 28, 29, 30, 31, 32}

RECURSIVE ToDecimal(_)
\* f"{filesize}".encode() for filesize >= 0: decimal digits, no leading zero
ToDecimal(n) ==
    IF n < 10 THEN <<48 + n>>
    ELSE Append(ToDecimal(n \div 10), 48 + (n % 10))

\* EncodeHeader without the newline that ends the header
EncodeHeader_NoNewline(n) == ToDecimal(n)

\* f"{filesize}\n".encode()
EncodeHeader(n) == ToDecimal(n) \o Newline

\* bytes.decode(): UTF-8.  Bytes below 0x80 decode to themselves; 0xFF, the
\* only other byte the model's alphabet holds, occurs in no valid sequence.
DecodeOK(s) == \A i \in 1..Len(s) : s[i] < 128

RECURSIVE LStrip(_)
LStrip(s) ==
    IF s # <<>> /\ IsSpace(s[1]) THEN LStrip(Tail(s)) ELSE s

RECURSIVE RStrip(_)
RStrip(s) ==
    IF s # <<>> /\ IsSpace(s[Len(s)]) THEN RStrip(SubSeq(s, 1, Len(s) - 1)) ELSE s

\* str.strip()
Strip(s) == RStrip(LStrip(s))

HasSign(s) == s # <<>> /\ s[1] \in {43, 45}

Unsigned(s) == IF HasSign(s) THEN Tail(s) ELSE s

\* digits with single underscores allowed between digits (int()'s grammar)
IsDigitString(t) ==
    /\ t # <<>>
    /\ \A i \in 1..Len(t) :
          \/ IsDigit(t[i])
          \/ /\ t[i] = 95
             /\ i > 1 /\ i < Len(t)
             /\ IsDigit(t[i-1]) /\ IsDigit(t[i+1])

RECURSIVE DigitsValue(_)
DigitsValue(t) ==
    IF t = <<>> THEN 0
    ELSE IF t[Len(t)] = 95 THEN DigitsValue(SubSeq(t, 1, Len(t) - 1))
    ELSE 10 * DigitsValue(SubSeq(t, 1, Len(t) - 1)) + (t[Len(t)] - 48)

\* int(text): whether it parses (else ValueError)
IntOK(s) == IsDigitString(Unsigned(Strip(s)))

\* int(text) when it parses
IntValue(s) ==
    IF HasSign(Strip(s)) /\ Strip(s)[1] = 45
    THEN 0 - DigitsValue(Unsigned(Strip(s)))
    ELSE DigitsValue(Unsigned(Strip(s)))

\* int(data.decode().strip()): whether the header expression raises
HeaderOK(data) == DecodeOK(data) /\ IntOK(Strip(data))

HeaderValue(data) == IntValue(Strip(data))

(***************************************************************************)
(* Inputs                                                                  *)
(***************************************************************************)
\* ' ', '5' and the non-UTF-8 byte 0xFF (LongFile holds letters)
Alphabet == {32, 53, 255}

SeqsUpTo(S, n) == UNION {[1..k -> S] : k \in 0..n}

LongFile == [i \in 1..LongLen |-> 96 + i]

\* contents of the file send_file is asked to send
Files == SeqsUpTo(Alphabet, MaxSmallLen) \cup {LongFile}

\* what os.path.getsize finds at the path
PathStates == {"ok", "missing", "noperm"}

Hosts == {"127.0.0.1"}

\* args.port, as the text the messages format it to
Ports == {"12345"}

\* byte streams a raw client writes before closing:
\* "", "-5\n", "ab\n", "12", "3\na", "1\nab", "1_0\n", " 2\nab"
RawStreams ==
    { <<>>,
      <<45, 53, 10>>,
      <<97, 98, 10>>,
      <<49, 50>>,
      <<51, 10, 97>>,
      <<49, 10, 97, 98>>,
      <<49, 95, 48, 10>>,
      <<32, 50, 10, 97, 98>> }

\* output.txt before the receiver runs: absent, or holding old bytes
OldOutputs ==
    { [exists |-> FALSE, data |-> <<>>],
      [exists |-> TRUE, data |-> <<120, 120, 120>>] }

(***************************************************************************)
(* State                                                                   *)
(***************************************************************************)
VARIABLES
    peer,            \* "send_file" or "raw": who talks to the receiver
    scommand,        \* subcommand of the sending process: "send" or "none"
    rcommand,        \* subcommand of the receiving process: "recv" or "none"
    pstat,           \* what getsize finds at args.filename
    content,         \* bytes of the file at args.filename
    host,            \* args.ip
    port,            \* args.port
    rawstream,       \* bytes the raw client writes
    grown,           \* appends made to the source file since the send began
    spc,             \* position of the sending process
    s_filesize,      \* send_file: filesize
    chunk,           \* send_file: chunk
    fpos,            \* send_file: read offset of f
    bytes_sent,      \* send_file: bytes_sent
    ssock,           \* send_file: s ("none", "open", "closed")
    sfile,           \* send_file: f ("none", "open", "closed")
    sret,            \* send_file: "running", "None", "1" or "raised"
    sout,            \* lines send_file printed
    sprog,           \* progress observations send_file printed
    connects,        \* calls of s.connect
    connres,         \* result of s.connect: "none", "ok", "refused", "error"
    sent,            \* every byte the client wrote to the connection
    sexit,           \* exit status of the sending process
    wire,            \* bytes in flight towards the receiver
    conn,            \* the connection: "none", "pending", "accepted"
    rpc,             \* position of the receiving process
    r_filesize,      \* receive_file: filesize
    bytes_received,  \* receive_file: bytes_received
    lsock,           \* receive_file: s ("none", "open", "bound", "listening", "closed")
    csock,           \* receive_file: conn ("none", "open", "closed")
    rfile,           \* receive_file: f ("none", "open", "closed")
    rret,            \* receive_file: "running", "None" or "1"
    rout,            \* lines receive_file printed
    rprog,           \* progress observations receive_file printed
    out,             \* output.txt: [exists, data]
    opens,           \* calls of open("output.txt", "wb")
    reads,           \* calls of conn.recv in the payload loop
    writes,          \* calls of f.write
    reof,            \* a payload recv returned b"" (line 146)
    hdrread,         \* the header recv returned
    hdr,             \* bytes the header recv returned
    rcalls,          \* calls made on the listening socket, with their results
    rexit            \* exit status of the receiving process

inputs == <<peer, scommand, rcommand, pstat, content, host, port, rawstream,
            grown>>

svars == <<spc, s_filesize, chunk, fpos, bytes_sent, ssock, sfile, sret, sout,
           sprog, connects, connres, sent, sexit>>

nvars == <<wire, conn>>

rvars == <<rpc, r_filesize, bytes_received, lsock, csock, rfile, rret, rout,
           rprog, out, opens, reads, writes, reof, hdrread, hdr, rcalls, rexit>>

vars == <<inputs, svars, nvars, rvars>>

Init ==
    /\ peer \in {"send_file", "raw"}
    /\ scommand \in {"send", "none"}
    /\ rcommand \in {"recv", "none"}
    /\ peer = "raw" => scommand = "none" /\ rcommand = "recv"
    /\ pstat \in PathStates
    /\ content \in Files
    /\ (pstat # "ok" \/ scommand # "send" \/ peer = "raw") => content = <<>>
    /\ (scommand # "send" \/ peer = "raw") => pstat = "ok"
    /\ host \in Hosts
    /\ port \in Ports
    /\ rawstream \in RawStreams
    /\ peer # "raw" => rawstream = <<>>
    /\ grown = 0
    /\ spc = IF peer = "raw" THEN "raw_connect" ELSE "main"
    /\ s_filesize = 0
    /\ chunk = <<>>
    /\ fpos = 0
    /\ bytes_sent = 0
    /\ ssock = "none"
    /\ sfile = "none"
    /\ sret = "running"
    /\ sout = <<>>
    /\ sprog = <<>>
    /\ connects = 0
    /\ connres = "none"
    /\ sent = <<>>
    /\ sexit = "running"
    /\ wire = <<>>
    /\ conn = "none"
    /\ rpc = "main"
    /\ r_filesize = 0
    /\ bytes_received = 0
    /\ lsock = "none"
    /\ csock = "none"
    /\ rfile = "none"
    /\ rret = "running"
    /\ rout = <<>>
    /\ rprog = <<>>
    /\ out \in OldOutputs
    /\ opens = 0
    /\ reads = 0
    /\ writes = 0
    /\ reof = FALSE
    /\ hdrread = FALSE
    /\ hdr = <<>>
    /\ rcalls = <<>>
    /\ rexit = "running"

(***************************************************************************)
(* The connection                                                          *)
(***************************************************************************)
\* the receiving end is gone: the client's writes reach nobody
ReceiverGone == csock = "closed" \/ (lsock = "closed" /\ conn # "accepted")

\* the client closed its socket: once nothing is in flight, recv returns b""
PeerClosed == ssock = "closed"

\* the stream after the client wrote data
Deliver(data) == IF ReceiverGone THEN wire ELSE wire \o data

\* a connect succeeds exactly when the receiver is listening
Listening == lsock = "listening"

(***************************************************************************)
(* main, in the sending process                                            *)
(***************************************************************************)
\* args.func(args) with func = send_file (lines 207-209)
SMainDispatch ==
    /\ spc = "main" /\ scommand = "send"
    /\ spc' = "getsize"
    /\ UNCHANGED <<s_filesize, chunk, fpos, bytes_sent, ssock, sfile, sret, sout,
                   sprog, connects, connres, sent, sexit>>
    /\ UNCHANGED <<inputs, nvars, rvars>>

\* no subcommand: parser.print_help(), return 0 (lines 210-213)
SMainHelp ==
    /\ spc = "main" /\ scommand = "none"
    /\ spc' = "exited"
    /\ sout' = Append(sout, <<"usage">>)
    /\ sexit' = "0"
    /\ UNCHANGED <<s_filesize, chunk, fpos, bytes_sent, ssock, sfile, sret,
                   sprog, connects, connres, sent>>
    /\ UNCHANGED <<inputs, nvars, rvars>>

\* the status main hands to sys.exit once the operation returned ret
MainStatus(ret) == "0"

\* args.func(args) returned; its value is dropped; return 0 (lines 209, 213)
SMainReturn ==
    /\ spc = "returned"
    /\ spc' = "exited"
    /\ sexit' = MainStatus(sret)
    /\ UNCHANGED <<s_filesize, chunk, fpos, bytes_sent, ssock, sfile, sret, sout,
                   sprog, connects, connres, sent>>
    /\ UNCHANGED <<inputs, nvars, rvars>>

\* an exception left send_file and main: the interpreter prints the traceback
\* and the process ends with status 1 (line 217)
SMainUncaught ==
    /\ spc = "raised"
    /\ spc' = "exited"
    /\ sexit' = "1"
    /\ UNCHANGED <<s_filesize, chunk, fpos, bytes_sent, ssock, sfile, sret, sout,
                   sprog, connects, connres, sent>>
    /\ UNCHANGED <<inputs, nvars, rvars>>

(***************************************************************************)
(* send_file                                                               *)
(***************************************************************************)
OSErrors == {"OSError", "ConnectionRefusedError"}

\* SenderMessage with the handlers in the wrong order: socket.error, which
\* ConnectionRefusedError is a subclass of, is tried first
SenderMessage_HandlersSwapped(exc) ==
    IF exc \in OSErrors
    THEN <<"Socket error occurred: ", exc>>
    ELSE <<"Error encountered: ", exc>>

\* the line the handlers of lines 92-100 print for exception exc
SenderMessage(exc) ==
    IF exc = "ConnectionRefusedError"
    THEN <<"Connection refused to ", host, ":", port>>
    ELSE IF exc \in OSErrors
    THEN <<"Socket error occurred: ", exc>>
    ELSE <<"Error encountered: ", exc>>

\* SRaise without the with blocks: the handler runs, nothing is closed
SRaise_NoClose(exc) ==
    /\ UNCHANGED <<sfile, ssock>>
    /\ sout' = Append(sout, SenderMessage(exc))
    /\ sret' = "1"
    /\ spc' = "returned"

\* exc raised inside the try of line 71: both with blocks close what they
\* hold, the handler prints one line and returns 1
SRaise(exc) ==
    /\ sfile' = IF sfile = "open" THEN "closed" ELSE sfile
    /\ ssock' = IF ssock = "open" THEN "closed" ELSE ssock
    /\ sout' = Append(sout, SenderMessage(exc))
    /\ sret' = "1"
    /\ spc' = "returned"

\* GetSizeOutcome without the size check before the socket is made
GetSizeOutcome_NoCheck(st) ==
    IF st = "noperm" THEN "propagate" ELSE "continue"

\* what the first try does with the outcome of os.path.getsize (lines 65-69):
\* "continue", "return1" (FileNotFoundError caught) or "propagate"
GetSizeOutcome(st) ==
    IF st = "ok" THEN "continue"
    ELSE IF st = "missing" THEN "return1"
    ELSE "propagate"

\* lines 65-69
SGetSize ==
    /\ spc = "getsize"
    /\ \/ /\ GetSizeOutcome(pstat) = "continue"
          /\ s_filesize' = Len(content)
          /\ spc' = "socket"
          /\ UNCHANGED <<sret, sout>>
       \/ /\ GetSizeOutcome(pstat) = "return1"
          /\ sout' = Append(sout, <<"Error: file ", "args.filename", " not found.">>)
          /\ sret' = "1"
          /\ spc' = "returned"
          /\ UNCHANGED s_filesize
       \/ /\ GetSizeOutcome(pstat) = "propagate"
          /\ sret' = "raised"
          /\ spc' = "raised"
          /\ UNCHANGED <<s_filesize, sout>>
    /\ UNCHANGED <<chunk, fpos, bytes_sent, ssock, sfile, sprog, connects,
                   connres, sent, sexit>>
    /\ UNCHANGED <<inputs, nvars, rvars>>

\* line 72: socket.socket(...) returns, or raises OSError
SSocket ==
    /\ spc = "socket"
    /\ \/ /\ ssock' = "open"
          /\ spc' = "connect"
          /\ UNCHANGED <<sfile, sret, sout>>
       \/ SRaise("OSError")
    /\ UNCHANGED <<s_filesize, chunk, fpos, bytes_sent, sprog, connects,
                   connres, sent, sexit>>
    /\ UNCHANGED <<inputs, nvars, rvars>>

\* line 73: s.connect((host, port))
SConnect ==
    /\ spc = "connect"
    /\ connects' = connects + 1
    /\ \/ /\ Listening
          /\ connres' = "ok"
          /\ conn' = "pending"
          /\ spc' = "header"
          /\ UNCHANGED <<ssock, sfile, sret, sout>>
       \/ /\ ~Listening
          /\ connres' = "refused"
          /\ SRaise("ConnectionRefusedError")
          /\ UNCHANGED conn
       \/ /\ connres' = "error"
          /\ SRaise("OSError")
          /\ UNCHANGED conn
    /\ UNCHANGED <<s_filesize, chunk, fpos, bytes_sent, sprog, sent, sexit>>
    /\ UNCHANGED <<inputs, wire, rvars>>

\* lines 74, 77: s.sendall(header) writes it all, or a proper prefix of it and
\* raises OSError
SSendHeader ==
    /\ spc = "header"
    /\ \E k \in 0..Len(EncodeHeader(s_filesize)) :
          /\ sent' = sent \o Take(EncodeHeader(s_filesize), k)
          /\ wire' = Deliver(Take(EncodeHeader(s_filesize), k))
          /\ IF k = Len(EncodeHeader(s_filesize))
             THEN /\ bytes_sent' = 0
                  /\ spc' = "open"
                  /\ UNCHANGED <<ssock, sfile, sret, sout>>
             ELSE /\ SRaise("OSError")
                  /\ UNCHANGED bytes_sent
    /\ UNCHANGED <<s_filesize, chunk, fpos, sprog, connects, connres, sexit>>
    /\ UNCHANGED <<inputs, conn, rvars>>

\* line 78: open(filename, "rb") returns, or raises OSError
SOpen ==
    /\ spc = "open"
    /\ \/ /\ sfile' = "open"
          /\ fpos' = 0
          /\ spc' = "read"
          /\ UNCHANGED <<ssock, sret, sout>>
       \/ /\ SRaise("OSError")
          /\ UNCHANGED fpos
    /\ UNCHANGED <<s_filesize, chunk, bytes_sent, sprog, connects, connres,
                   sent, sexit>>
    /\ UNCHANGED <<inputs, nvars, rvars>>

\* f.read(CHUNK_SIZE) at offset pos of data
ReadChunk(data, pos) == SubSeq(data, pos + 1, Min(pos + CHUNK_SIZE, Len(data)))

\* lines 80-82: read the next chunk; an empty chunk ends the loop
SRead ==
    /\ spc = "read"
    /\ \/ /\ chunk' = ReadChunk(content, fpos)
          /\ fpos' = fpos + Len(ReadChunk(content, fpos))
          /\ spc' = IF ReadChunk(content, fpos) = <<>> THEN "complete" ELSE "send"
          /\ UNCHANGED <<ssock, sfile, sret, sout>>
       \/ /\ SRaise("OSError")
          /\ UNCHANGED <<chunk, fpos>>
    /\ UNCHANGED <<s_filesize, bytes_sent, sprog, connects, connres, sent, sexit>>
    /\ UNCHANGED <<inputs, nvars, rvars>>

\* lines 83-88: s.sendall(chunk), count it, print the progress line
SSendChunk ==
    /\ spc = "send"
    /\ \E k \in 0..Len(chunk) :
          /\ sent' = sent \o Take(chunk, k)
          /\ wire' = Deliver(Take(chunk, k))
          /\ IF k < Len(chunk)
             THEN /\ SRaise("OSError")
                  /\ UNCHANGED <<bytes_sent, sprog>>
             ELSE /\ bytes_sent' = bytes_sent + Len(chunk)
                  /\ IF s_filesize = 0
                     THEN /\ SRaise("ZeroDivisionError")
                          /\ UNCHANGED sprog
                     ELSE /\ sprog' = Append(sprog, <<bytes_sent + Len(chunk), s_filesize>>)
                          /\ spc' = "read"
                          /\ UNCHANGED <<ssock, sfile, sret, sout>>
    /\ UNCHANGED <<s_filesize, chunk, fpos, connects, connres, sexit>>
    /\ UNCHANGED <<inputs, conn, rvars>>

\* SComplete that leaves the socket open: no with block around it
SComplete_NoClose ==
    /\ spc = "complete"
    /\ sfile' = "closed"
    /\ sout' = Append(sout, <<"File transmission complete!">>)
    /\ sret' = "None"
    /\ spc' = "returned"
    /\ UNCHANGED <<s_filesize, chunk, fpos, bytes_sent, ssock, sprog, connects,
                   connres, sent, sexit>>
    /\ UNCHANGED <<inputs, nvars, rvars>>

\* lines 78-90 after the break: f is closed, the completion line is printed,
\* s is closed, the function falls off its end (returns None)
SComplete ==
    /\ spc = "complete"
    /\ sfile' = "closed"
    /\ sout' = Append(sout, <<"File transmission complete!">>)
    /\ ssock' = "closed"
    /\ sret' = "None"
    /\ spc' = "returned"
    /\ UNCHANGED <<s_filesize, chunk, fpos, bytes_sent, sprog, connects,
                   connres, sent, sexit>>
    /\ UNCHANGED <<inputs, nvars, rvars>>

\* the file system between lines 66 and 80: another process appends a byte
\* to the file after its size was taken and before the loop read its end
FileGrow ==
    /\ peer = "send_file" /\ pstat = "ok"
    /\ spc \in {"socket", "connect", "header", "open", "read", "send"}
    /\ grown < MaxGrow
    /\ grown' = grown + 1
    /\ content' = Append(content, 122)
    /\ UNCHANGED <<peer, scommand, rcommand, pstat, host, port, rawstream>>
    /\ UNCHANGED <<svars, nvars, rvars>>

(***************************************************************************)
(* The raw client                                                          *)
(***************************************************************************)
RawConnect ==
    /\ spc = "raw_connect"
    /\ Listening
    /\ ssock' = "open"
    /\ conn' = "pending"
    /\ spc' = "raw_send"
    /\ UNCHANGED <<s_filesize, chunk, fpos, bytes_sent, sfile, sret, sout,
                   sprog, connects, connres, sent, sexit>>
    /\ UNCHANGED <<inputs, wire, rvars>>

RawSend ==
    /\ spc = "raw_send"
    /\ sent' = sent \o rawstream
    /\ wire' = Deliver(rawstream)
    /\ spc' = "raw_close"
    /\ UNCHANGED <<s_filesize, chunk, fpos, bytes_sent, ssock, sfile, sret, sout,
                   sprog, connects, connres, sexit>>
    /\ UNCHANGED <<inputs, conn, rvars>>

RawClose ==
    /\ spc = "raw_close"
    /\ ssock' = "closed"
    /\ spc' = "raw_done"
    /\ UNCHANGED <<s_filesize, chunk, fpos, bytes_sent, sfile, sret, sout,
                   sprog, connects, connres, sent, sexit>>
    /\ UNCHANGED <<inputs, nvars, rvars>>

(***************************************************************************)
(* main, in the receiving process                                          *)
(***************************************************************************)
\* args.func(args) with func = receive_file (lines 207-209)
RMainDispatch ==
    /\ rpc = "main" /\ rcommand = "recv"
    /\ rpc' = "socket"
    /\ UNCHANGED <<r_filesize, bytes_received, lsock, csock, rfile, rret, rout,
                   rprog, out, opens, reads, writes, reof, hdrread, hdr, rexit>>
    /\ UNCHANGED <<inputs, svars, nvars, rcalls>>

\* no subcommand: parser.print_help(), return 0 (lines 210-213)
RMainHelp ==
    /\ rpc = "main" /\ rcommand = "none"
    /\ rpc' = "exited"
    /\ rout' = Append(rout, <<"usage">>)
    /\ rexit' = "0"
    /\ UNCHANGED <<r_filesize, bytes_received, lsock, csock, rfile, rret,
                   rprog, out, opens, reads, writes, reof, hdrread, hdr>>
    /\ UNCHANGED <<inputs, svars, nvars, rcalls>>

\* args.func(args) returned; its value is dropped; return 0 (lines 209, 213)
RMainReturn ==
    /\ rpc = "returned"
    /\ rpc' = "exited"
    /\ rexit' = MainStatus(rret)
    /\ UNCHANGED <<r_filesize, bytes_received, lsock, csock, rfile, rret, rout,
                   rprog, out, opens, reads, writes, reof, hdrread, hdr>>
    /\ UNCHANGED <<inputs, svars, nvars, rcalls>>

(***************************************************************************)
(* receive_file                                                            *)
(***************************************************************************)
\* exc raised inside the try of line 128: the with blocks close what they
\* hold, the handler of lines 156-158 prints one line and returns 1
RRaise(exc) ==
    /\ rfile' = IF rfile = "open" THEN "closed" ELSE rfile
    /\ csock' = IF csock = "open" THEN "closed" ELSE csock
    /\ lsock' = IF lsock = "none" THEN "none" ELSE "closed"
    /\ rout' = Append(rout, <<"Error encountered: ", exc>>)
    /\ rret' = "1"
    /\ rpc' = "returned"

\* line 129: socket.socket(...) returns, or raises OSError
RSocket ==
    /\ rpc = "socket"
    /\ \/ /\ lsock' = "open"
          /\ rpc' = "bind"
          /\ UNCHANGED <<csock, rfile, rret, rout>>
       \/ RRaise("OSError")
    /\ UNCHANGED <<r_filesize, bytes_received, rprog, out, opens, reads, writes,
                   reof, hdrread, hdr, rexit>>
    /\ UNCHANGED <<inputs, svars, nvars, rcalls>>

\* RBind with the failure of bind swallowed: the function goes on to listen
RBind_IgnoreFailure ==
    /\ rpc = "bind"
    /\ \E res \in {"ok", "fail"} :
          /\ rcalls' = Append(rcalls, <<"bind", res>>)
          /\ lsock' = "bound"
          /\ rpc' = "listen"
          /\ UNCHANGED <<csock, rfile, rret, rout>>
    /\ UNCHANGED <<r_filesize, bytes_received, rprog, out, opens, reads, writes,
                   reof, hdrread, hdr, rexit>>
    /\ UNCHANGED <<inputs, svars, nvars>>

\* line 130: s.bind((host, port)) returns, or raises OSError
RBind ==
    /\ rpc = "bind"
    /\ \/ /\ rcalls' = Append(rcalls, <<"bind", "ok">>)
          /\ lsock' = "bound"
          /\ rpc' = "listen"
          /\ UNCHANGED <<csock, rfile, rret, rout>>
       \/ /\ rcalls' = Append(rcalls, <<"bind", "fail">>)
          /\ RRaise("OSError")
    /\ UNCHANGED <<r_filesize, bytes_received, rprog, out, opens, reads, writes,
                   reof, hdrread, hdr, rexit>>
    /\ UNCHANGED <<inputs, svars, nvars>>

\* lines 131-133: s.listen() returns, or raises OSError
RListen ==
    /\ rpc = "listen"
    /\ \/ /\ rcalls' = Append(rcalls, <<"listen", "ok">>)
          /\ lsock' = "listening"
          /\ rout' = Append(rout, <<"Listening on ", host, ":", port, "...">>)
          /\ rpc' = "accept"
          /\ UNCHANGED <<csock, rfile, rret>>
       \/ /\ rcalls' = Append(rcalls, <<"listen", "fail">>)
          /\ RRaise("OSError")
    /\ UNCHANGED <<r_filesize, bytes_received, rprog, out, opens, reads, writes,
                   reof, hdrread, hdr, rexit>>
    /\ UNCHANGED <<inputs, svars, nvars>>

\* lines 135-137: s.accept() blocks until a connection is pending, or raises
RAccept ==
    /\ rpc = "accept"
    /\ \/ /\ conn = "pending"
          /\ conn' = "accepted"
          /\ rcalls' = Append(rcalls, <<"accept", "ok">>)
          /\ csock' = "open"
          /\ rout' = Append(rout, <<"Connection from ", "addr", " established">>)
          /\ rpc' = "header"
          /\ UNCHANGED <<lsock, rfile, rret>>
       \/ /\ rcalls' = Append(rcalls, <<"accept", "fail">>)
          /\ RRaise("OSError")
          /\ UNCHANGED conn
    /\ UNCHANGED <<r_filesize, bytes_received, rprog, out, opens, reads, writes,
                   reof, hdrread, hdr, rexit>>
    /\ UNCHANGED <<inputs, svars, wire>>

\* the byte strings conn.recv(n) may return: 1..n of the bytes in flight, or
\* b"" when the peer has closed and nothing is in flight; none while it blocks
RecvResults(n) ==
    IF wire # <<>> THEN {Take(wire, k) : k \in 1..Min(n, Len(wire))}
    ELSE IF PeerClosed THEN {<<>>}
    ELSE {}

\* line 140-141: filesize = int(conn.recv(1024).decode().strip())
RRecvHeader ==
    /\ rpc = "header"
    /\ \/ \E data \in RecvResults(HeaderRecvSize) :
             /\ wire' = Drop(wire, Len(data))
             /\ hdr' = data
             /\ hdrread' = TRUE
             /\ IF HeaderOK(data)
                THEN /\ r_filesize' = HeaderValue(data)
                     /\ bytes_received' = 0
                     /\ rpc' = "open"
                     /\ UNCHANGED <<lsock, csock, rfile, rret, rout>>
                ELSE /\ RRaise("ValueError")
                     /\ UNCHANGED <<r_filesize, bytes_received>>
       \/ /\ RRaise("OSError")
          /\ UNCHANGED <<wire, hdr, hdrread, r_filesize, bytes_received>>
    /\ UNCHANGED <<rprog, out, opens, reads, writes, reof, rexit>>
    /\ UNCHANGED <<inputs, svars, conn, rcalls>>

\* line 143: open("output.txt", "wb") creates or truncates the file, or raises
ROpen ==
    /\ rpc = "open"
    /\ opens' = opens + 1
    /\ \/ /\ out' = [exists |-> TRUE, data |-> <<>>]
          /\ rfile' = "open"
          /\ rpc' = "loop"
          /\ UNCHANGED <<lsock, csock, rret, rout>>
       \/ /\ RRaise("OSError")
          /\ UNCHANGED out
    /\ UNCHANGED <<r_filesize, bytes_received, rprog, reads, writes, reof,
                   hdrread, hdr, rexit>>
    /\ UNCHANGED <<inputs, svars, nvars, rcalls>>

\* LoopContinues with <= for <: one more pass once the size is reached
LoopContinues_OffByOne(received, size) == received <= size

\* line 144: the loop condition
LoopContinues(received, size) == received < size

\* line 145: the size asked of conn.recv
RecvSize(received, size) == Min(CHUNK_SIZE, size - received)

\* line 144, condition false: leave the loop
RLoopExit ==
    /\ rpc = "loop"
    /\ ~LoopContinues(bytes_received, r_filesize)
    /\ rpc' = "complete"
    /\ UNCHANGED <<r_filesize, bytes_received, lsock, csock, rfile, rret, rout,
                   rprog, out, opens, reads, writes, reof, hdrread, hdr, rexit>>
    /\ UNCHANGED <<inputs, svars, nvars, rcalls>>

\* what the loop does with an empty chunk (lines 146-147): "break"
OnEmptyChunk == "break"

\* WriteChunk that replaces what the file holds instead of appending to it
WriteChunk_Overwrite(file, data) == [file EXCEPT !.data = data]

\* line 148: f.write(chunk) appends the chunk to the file opened at line 143
WriteChunk(file, data) == [file EXCEPT !.data = @ \o data]

\* lines 144-153: one iteration that receives data
RRecvChunk ==
    /\ rpc = "loop"
    /\ LoopContinues(bytes_received, r_filesize)
    /\ \E data \in RecvResults(RecvSize(bytes_received, r_filesize)) :
          /\ wire' = Drop(wire, Len(data))
          /\ reads' = reads + 1
          /\ IF data = <<>>
             THEN /\ reof' = TRUE
                  /\ IF OnEmptyChunk = "break"
                     THEN /\ rpc' = "complete"
                          /\ UNCHANGED <<lsock, csock, rfile, rret, rout>>
                     ELSE RRaise("TruncatedTransfer")
                  /\ UNCHANGED <<out, bytes_received, rprog, writes>>
             ELSE /\ writes' = writes + 1
                  /\ UNCHANGED reof
                  /\ \/ /\ out' = WriteChunk(out, data)
                        /\ bytes_received' = bytes_received + Len(data)
                        /\ rprog' = Append(rprog, <<bytes_received + Len(data), r_filesize>>)
                        /\ UNCHANGED <<rpc, lsock, csock, rfile, rret, rout>>
                     \/ /\ RRaise("OSError")
                        /\ UNCHANGED <<out, bytes_received, rprog>>
    /\ UNCHANGED <<r_filesize, opens, hdrread, hdr, rexit>>
    /\ UNCHANGED <<inputs, svars, conn, rcalls>>

\* line 145: conn.recv raises OSError
RRecvFail ==
    /\ rpc = "loop"
    /\ LoopContinues(bytes_received, r_filesize)
    /\ reads' = reads + 1
    /\ RRaise("OSError")
    /\ UNCHANGED <<r_filesize, bytes_received, rprog, out, opens, writes, reof,
                   hdrread, hdr, rexit>>
    /\ UNCHANGED <<inputs, svars, nvars, rcalls>>

\* RComplete turned into a server loop: after one transfer it accepts again
RComplete_AcceptAgain ==
    /\ rpc = "complete"
    /\ rfile' = "closed"
    /\ rout' = Append(rout, <<"File received and saved!">>)
    /\ csock' = "closed"
    /\ rpc' = "accept"
    /\ UNCHANGED <<r_filesize, bytes_received, lsock, rret, rprog, out, opens,
                   reads, writes, reof, hdrread, hdr, rexit>>
    /\ UNCHANGED <<inputs, svars, nvars, rcalls>>

\* lines 143-155 after the loop: f is closed, the completion line is
\* printed, conn and s are closed, the function returns None
RComplete ==
    /\ rpc = "complete"
    /\ rfile' = "closed"
    /\ rout' = Append(rout, <<"File received and saved!">>)
    /\ csock' = "closed"
    /\ lsock' = "closed"
    /\ rret' = "None"
    /\ rpc' = "returned"
    /\ UNCHANGED <<r_filesize, bytes_received, rprog, out, opens, reads, writes,
                   reof, hdrread, hdr, rexit>>
    /\ UNCHANGED <<inputs, svars, nvars, rcalls>>

(***************************************************************************)
(* Specification                                                           *)
(***************************************************************************)
Next ==
    \/ SMainDispatch
    \/ SMainHelp
    \/ SMainReturn
    \/ SMainUncaught
    \/ SGetSize
    \/ SSocket
    \/ SConnect
    \/ SSendHeader
    \/ SOpen
    \/ SRead
    \/ SSendChunk
    \/ SComplete
    \/ FileGrow
    \/ RawConnect
    \/ RawSend
    \/ RawClose
    \/ RMainDispatch
    \/ RMainHelp
    \/ RMainReturn
    \/ RSocket
    \/ RBind
    \/ RListen
    \/ RAccept
    \/ RRecvHeader
    \/ ROpen
    \/ RLoopExit
    \/ RRecvChunk
    \/ RRecvFail
    \/ RComplete

Spec == Init /\ [][Next]_vars

(***************************************************************************)
(* Scheduling.  Each process is run by the operating system: a step of its *)
(* program that can be taken is eventually taken, and a blocked accept or  *)
(* recv returns once a connection, bytes or the peer's close are there.    *)
(* Nothing obliges a system call to fail, nor the file to grow.            *)
(***************************************************************************)
SenderStep ==
    \/ SMainDispatch
    \/ SMainHelp
    \/ SMainReturn
    \/ SMainUncaught
    \/ SGetSize
    \/ SSocket
    \/ SConnect
    \/ SSendHeader
    \/ SOpen
    \/ SRead
    \/ SSendChunk
    \/ SComplete

RawStep == RawConnect \/ RawSend \/ RawClose

ReceiverStep ==
    \/ RMainDispatch
    \/ RMainHelp
    \/ RMainReturn
    \/ RSocket
    \/ RBind
    \/ RListen
    \/ RAccept
    \/ RRecvHeader
    \/ ROpen
    \/ RLoopExit
    \/ RRecvChunk
    \/ RRecvFail
    \/ RComplete

\* the step is a system call of the sender failing with OSError
SenderFault ==
    sout' # sout /\ sout'[Len(sout')] = <<"Socket error occurred: ", "OSError">>

\* the step is a system call of the receiver failing with OSError
ReceiverFault ==
    rout' # rout /\ rout'[Len(rout')] = <<"Error encountered: ", "OSError">>

FairSpec ==
    /\ Spec
    /\ WF_vars(SenderStep /\ ~SenderFault)
    /\ WF_vars(RawStep)
    /\ WF_vars(ReceiverStep /\ ~ReceiverFault)

(***************************************************************************)
(* Properties                                                              *)
(***************************************************************************)
Printed(log, line) == \E i \in 1..Len(log) : log[i] = line

SendComplete == <<"File transmission complete!">>

RecvComplete == <<"File received and saved!">>

HasNewline(data) == \E i \in 1..Len(data) : data[i] = 10

FirstNewline(data) == CHOOSE i \in 1..Len(data) :
                          data[i] = 10 /\ \A j \in 1..(i-1) : data[j] # 10

\* the bytes of data after its first newline
AfterNewline(data) ==
    IF HasNewline(data) THEN SubSeq(data, FirstNewline(data) + 1, Len(data))
    ELSE <<>>

\* the bytes of data before its first newline
BeforeNewline(data) ==
    IF HasNewline(data) THEN SubSeq(data, 1, FirstNewline(data) - 1)
    ELSE data

\* the header the protocol defines: decimal digits, then a newline
WellFormedHeader(data) ==
    /\ HasNewline(data)
    /\ BeforeNewline(data) # <<>>
    /\ \A i \in 1..Len(BeforeNewline(data)) : IsDigit(BeforeNewline(data)[i])

SDone == spc \in {"returned", "exited"}

RDone == rpc \in {"returned", "exited"}

\* C1: when send_file runs against receive_file and both finish, the bytes
\* of the output file equal the bytes of the source file, for every file
\* and every segmentation of the stream.
C1_RoundTrip ==
    (/\ peer = "send_file" /\ grown = 0
     /\ SDone /\ RDone /\ sret = "None" /\ rret = "None")
        => (out.exists /\ out.data = content)

\* C2: if a payload recv returns zero bytes while bytes_received <
\* expected_size, receive_file returns 1 and does not print the completion
\* line.
C2_TruncatedIsFailure ==
    (reof /\ RDone) => (rret = "1" /\ ~Printed(rout, RecvComplete))

\* C3: bytes the header read returned after the newline are payload: they
\* are the first bytes written to the output file and none is discarded.
C3_TrailingIsPayload ==
    (hdrread /\ AfterNewline(hdr) # <<>> /\ (rret = "None" \/ rprog # <<>>))
        => IsPrefix(Take(AfterNewline(hdr), r_filesize), out.data)

\* C4: however the header bytes are split across recv returns, the size the
\* receiver uses equals the size the sender declared.
C4_HeaderSegmentation ==
    (/\ peer = "send_file"
     /\ IsPrefix(EncodeHeader(s_filesize), sent)
     /\ rpc \in {"open", "loop", "complete"})
        => r_filesize = s_filesize

\* C5: a received header that is not a non-negative decimal integer
\* followed by a newline makes receive_file return 1 without ever opening
\* the output file.  (Stated for a header read that returned everything the
\* peer wrote.)
C5_MalformedRejected ==
    (hdrread /\ hdr = sent /\ ~WellFormedHeader(hdr))
        => (RDone /\ rret = "1" /\ opens = 0)

\* C6: send_file on a path that does not exist returns 1 and creates no
\* socket, makes no connect attempt, sends nothing and opens no file.
C6_NoNetworkOnMissingFile ==
    (peer = "send_file" /\ scommand = "send" /\ pstat = "missing")
        => /\ spc \in {"main", "getsize", "returned", "exited"}
           /\ SDone => sret = "1"
           /\ ssock = "none"
           /\ connects = 0
           /\ connres = "none"
           /\ conn = "none"
           /\ sent = <<>>
           /\ sfile = "none"

C6_Witness ==
    /\ peer = "send_file" /\ scommand = "send" /\ pstat = "missing"
    /\ spc = "returned" /\ sret = "1"
    /\ lsock = "listening"

\* C7: a refused connect ends send_file with return value 1 and a message
\* naming host and port, after exactly one connect attempt, with no byte
\* written, the source file not opened and no completion line.
C7_RefusedIsTerminal ==
    connres = "refused"
        => /\ SDone
           /\ sret = "1"
           /\ sout = << <<"Connection refused to ", host, ":", port>> >>
           /\ connects = 1
           /\ sent = <<>>
           /\ sfile = "none"
           /\ ~Printed(sout, SendComplete)

C7_Witness ==
    /\ connres = "refused" /\ spc = "returned"
    /\ pstat = "ok" /\ content # <<>>

\* C8: no failure of any step of send_file or receive_file leaves the
\* operation as an exception: each ends with return value 1 after one
\* printed line.
C8_NoRawFault ==
    /\ sret # "raised"
    /\ (SDone /\ sret = "1") => Len(sout) = 1
    /\ (RDone /\ rret = "1") => rout # <<>> /\ rout[Len(rout)][1] = "Error encountered: "

\* C9: the exit status is 1 whenever the selected operation reported an
\* error, and 0 only when it succeeded or help was printed.
C9_ExitStatus ==
    /\ (spc = "exited" /\ sret = "1") => sexit = "1"
    /\ (rpc = "exited" /\ rret = "1") => rexit = "1"
    /\ (spc = "exited" /\ sexit = "0") => (sret = "None" \/ scommand = "none")
    /\ (rpc = "exited" /\ rexit = "0") => (rret = "None" \/ rcommand = "none")

NonDecreasing(prog) ==
    \A i \in 1..Len(prog) : \A j \in i..Len(prog) : prog[i][1] <= prog[j][1]

EndsAt(prog, total) == prog # <<>> => prog[Len(prog)][1] = total

\* C10: the reported bytes-moved values never decrease, there is one
\* observation per chunk moved, and a run reported successful ends with an
\* observation equal to the declared total.
C10_Progress ==
    /\ NonDecreasing(sprog)
    /\ NonDecreasing(rprog)
    /\ (SDone /\ sret = "None" /\ grown = 0) =>
           /\ Len(sprog) = (s_filesize + CHUNK_SIZE - 1) \div CHUNK_SIZE
           /\ EndsAt(sprog, s_filesize)
    /\ (RDone /\ rret = "None") =>
           /\ Len(rprog) = writes
           /\ EndsAt(rprog, r_filesize)

\* C11: in every reachable state the bytes moved never exceed the expected
\* size: bytes_sent against the size taken before connecting, bytes_received
\* and the bytes written to the output against the size parsed from the
\* header, whatever the peer and the file system do.
C11_BytesMovedBounded ==
    /\ bytes_sent <= s_filesize
    /\ bytes_received <= r_filesize
    /\ rfile # "none" => Len(out.data) <= r_filesize

\* C12: once send_file or receive_file has returned, with success or after
\* a failure at any step, every socket it created or accepted and every
\* file it opened is closed.
C12_ResourcesReleased ==
    /\ (SDone \/ spc = "raised") => (ssock \in {"none", "closed"} /\ sfile \in {"none", "closed"})
    /\ RDone => /\ lsock \in {"none", "closed"}
                /\ csock \in {"none", "closed"}
                /\ rfile \in {"none", "closed"}

C12_Witness ==
    /\ spc = "returned" /\ sret = "1" /\ ssock = "closed" /\ sfile = "closed"
    /\ bytes_sent > 0
    /\ rpc = "returned" /\ rret = "1"
    /\ lsock = "closed" /\ csock = "closed" /\ rfile = "closed"
    /\ bytes_received > 0

Calls(name) == {i \in 1..Len(rcalls) : rcalls[i][1] = name}

Failed(name) == \E i \in Calls(name) : rcalls[i][2] = "fail"

\* C13: in a run of receive_file, bind, listen and accept are each called
\* at most once; accept only after bind and listen succeeded; a failed bind
\* or listen ends the run with return value 1 and no accept; no connection
\* is accepted after the one that was serviced.
C13_SingleShot ==
    /\ Cardinality(Calls("bind")) <= 1
    /\ Cardinality(Calls("listen")) <= 1
    /\ Cardinality(Calls("accept")) <= 1
    /\ Calls("accept") # {} =>
           /\ Len(rcalls) = 3
           /\ rcalls[1] = <<"bind", "ok">>
           /\ rcalls[2] = <<"listen", "ok">>
    /\ (Failed("bind") \/ Failed("listen")) =>
           /\ RDone /\ rret = "1"
           /\ Calls("accept") = {}
           /\ conn = "none"
    /\ RDone => lsock # "listening"

C13_Witness ==
    /\ rcalls = << <<"bind", "ok">>, <<"listen", "ok">>, <<"accept", "ok">> >>
    /\ rpc = "exited" /\ rret = "None"
    /\ bytes_received > 0

\* the payload bytes the receiver has taken from the stream: what the peer
\* wrote after the bytes the header read consumed
PayloadReceived == SubSeq(sent, Len(hdr) + 1, Len(hdr) + bytes_received)

\* C14: when a receive ends after k < expected_size payload bytes were
\* written (the peer closed, or a read failed), output.txt exists after
\* receive_file returned and holds exactly those k bytes.
C14_NoRollback ==
    (RDone /\ rfile = "closed" /\ bytes_received < r_filesize)
        => /\ out.exists
           /\ Len(out.data) = bytes_received
           /\ out.data = PayloadReceived

C14_Witness ==
    /\ rpc = "returned" /\ rret = "1" /\ rfile = "closed"
    /\ bytes_received > CHUNK_SIZE /\ bytes_received < r_filesize
    /\ out.data = PayloadReceived

\* the stream the protocol defines for a file holding data
WireFormat(data) == ToDecimal(Len(data)) \o <<10>> \o data

C16_OutputIsPrefix ==
    (peer = "send_file" /\ sret # "1" /\ rfile # "none")
        => IsPrefix(out.data, content)

\* the session state of the sender at its position in send_file
SState ==
    IF sret \in {"1", "raised"} THEN "FAILED"
    ELSE IF sret = "None" THEN "DONE"
    ELSE IF spc = "header" THEN "CONNECTED"
    ELSE IF spc = "open" THEN "HEADER_EXCHANGED"
    ELSE IF spc \in {"read", "send", "complete"} THEN "STREAMING"
    ELSE "INIT"

\* the session state of the receiver at its position in receive_file
RState ==
    IF rret = "1" THEN "FAILED"
    ELSE IF rret = "None" THEN "DONE"
    ELSE IF rpc = "header" THEN "CONNECTED"
    ELSE IF rpc = "open" THEN "HEADER_EXCHANGED"
    ELSE IF rpc \in {"loop", "complete"} THEN "STREAMING"
    ELSE "INIT"

\* the moves the session state machine allows from state st
Allowed(st) ==
    IF st = "INIT" THEN {"INIT", "CONNECTED", "FAILED"}
    ELSE IF st = "CONNECTED" THEN {"CONNECTED", "HEADER_EXCHANGED", "FAILED"}
    ELSE IF st = "HEADER_EXCHANGED" THEN {"HEADER_EXCHANGED", "STREAMING", "FAILED"}
    ELSE IF st = "STREAMING" THEN {"STREAMING", "DONE", "FAILED"}
    ELSE {st}

\* C17: in both roles a run only moves forward through INIT, CONNECTED,
\* HEADER_EXCHANGED, STREAMING, DONE, one state at a time, or to FAILED from
\* any of the first four; DONE and FAILED are never left, so no state is
\* entered twice, FAILED never follows DONE and DONE is reached only
\* through HEADER_EXCHANGED.
C17_StateMachine ==
    [][/\ peer = "send_file" => SState' \in Allowed(SState)
       /\ RState' \in Allowed(RState)]_vars

C17_Witness ==
    /\ peer = "send_file"
    /\ SState = "FAILED" /\ sfile = "closed" /\ bytes_sent > 0
    /\ RState = "DONE" /\ bytes_received > 0

\* C18: a payload recv is issued only while bytes_received < filesize, none
\* once they are equal; with a parsed size of 0 and the output opened, the
\* receive ends successfully with no payload recv and an empty output.txt.
C18_StopsAtDeclaredSize ==
    /\ [][reads' # reads => (reads' = reads + 1 /\ bytes_received < r_filesize)]_vars
    /\ [](reads > 0 => r_filesize > 0)
    /\ []((RDone /\ rfile = "closed" /\ r_filesize = 0) =>
              /\ rret = "None"
              /\ reads = 0
              /\ out = [exists |-> TRUE, data |-> <<>>])

C18_Witness ==
    /\ rpc = "returned" /\ rret = "None"
    /\ r_filesize > 0 /\ bytes_received = r_filesize
    /\ reads = 1
    /\ wire # <<>>

\* The statement of C19 without a condition on the connection: whenever
\* both operations are started, both return.  A sender that connects before
\* line 131 has listened is refused (line 92) and returns; the receiver
\* then blocks in accept (line 135), which has no timeout.
C19_BothAlwaysReturn ==
    (scommand = "send" /\ rcommand = "recv") ~> (SDone /\ RDone)

\* C19: once send_file has connected to receive_file, both operations
\* return, for every file and every segmentation of the stream; and once
\* its peer has closed the connection the receiver returns, whatever size
\* it parsed from the header.
C19_Termination ==
    /\ (peer = "send_file" /\ connres = "ok") ~> (SDone /\ RDone)
    /\ (conn # "none" /\ PeerClosed) ~> RDone

C19_Witness ==
    /\ peer = "raw" /\ PeerClosed
    /\ rpc = "returned" /\ reof
    /\ r_filesize > Len(sent)

====
